---- MODULE Spec2Model ----
(***************************************************************************)
(* A model of cryptography's X.509 data layer (src/cryptography/x509.py):  *)
(* object identifiers and the two OID registries, Version, Extension,      *)
(* Extensions, BasicConstraints, KeyUsage, and the extension-set build a   *)
(* Certificate runs over the decoder's raw extension records.              *)
(*                                                                         *)
(* An ObjectIdentifier is modelled by its dotted string: __eq__ and        *)
(* __hash__ (x509.py 135-151) compare nothing else.                        *)
(***************************************************************************)
EXTENDS Integers, Sequences, FiniteSets, TLC

VARIABLES
    raw,          \* the decoder's ordered raw extension records
    idx,          \* position of the next raw record the build examines
    accepted,     \* the list the build appends accepted Extension objects to
    outcome,      \* what the build produced: running, an Extensions, or an error
    lookupOid,    \* argument of the last get_extension_for_oid call
    lookupResult, \* what that call returned or raised
    listObj,      \* contents of the list object a caller passes to Extensions(...)
    extsObj,      \* the Extensions object made from it, holding the list by reference
    certRaw,      \* raw extension records of a Certificate
    cache,        \* the Certificate's memoized build outcome
    guard,        \* the reader inside the guarded first access
    pc,           \* each reader's position in the extensions accessor
    reads,        \* accesses each reader has completed
    builds,       \* times the build ran for the Certificate
    observed,     \* outcomes the completed accesses observed
    kuArgs,       \* arguments of the last KeyUsage(...) call
    kuObj,        \* what it produced: a KeyUsage or a ValueError
    kuRead,       \* the last property read on the KeyUsage
    bcArgs,       \* arguments of the last BasicConstraints(...) call
    bcObj,        \* what it produced
    bcRead,       \* the last property read on the BasicConstraints
    sigOid,       \* OID of the last signature-hash lookup
    sigResult,    \* what that lookup returned or raised
    rawVersion,   \* raw integer of the last version decoding
    verResult,    \* what that decoding returned or raised
    exArgs,       \* arguments of the last Extension(...) call
    exObj,        \* what it produced: an Extension or a TypeError
    exRead,       \* the last property read on the Extension
    nameAttrs,    \* the attribute list a Name holds
    nameOid,      \* argument of the last get_attributes_for_oid call
    nameResult    \* what that call returned

buildVars == <<raw, idx, accepted, outcome>>
lookupVars == <<lookupOid, lookupResult>>
userVars == <<listObj, extsObj>>
certVars == <<certRaw, cache, guard, pc, reads, builds, observed>>
kuVars == <<kuArgs, kuObj, kuRead>>
bcVars == <<bcArgs, bcObj, bcRead>>
regVars == <<sigOid, sigResult, rawVersion, verResult>>
exVars == <<exArgs, exObj, exRead>>
nameVars == <<nameAttrs, nameOid, nameResult>>

vars == <<buildVars, lookupVars, userVars, certVars, kuVars, bcVars, regVars,
          exVars, nameVars>>

----------------------------------------------------------------------------
(* Bounds of the model. *)

MaxRaw == 3          \* longest raw extension sequence the build is run on

----------------------------------------------------------------------------
(* Object identifiers. *)

OID_KEY_USAGE == "2.5.29.15"
OID_BASIC_CONSTRAINTS == "2.5.29.19"
OID_UNKNOWN == "1.2.3.4"

ExtensionOids == {OID_KEY_USAGE, OID_BASIC_CONSTRAINTS, OID_UNKNOWN}

NoOid == "none"

\* The two shapes a raw record's value has: one of the typed variants the
\* decoder produced, or the opaque fallback it left undecoded.
Typed == "typed"
Opaque == "opaque"

RawRecords == [oid : ExtensionOids, critical : BOOLEAN, value : {Typed, Opaque}]

RECURSIVE SeqsUpTo(_, _)
SeqsUpTo(S, n) ==
    IF n = 0 THEN {<<>>}
    ELSE LET shorter == SeqsUpTo(S, n - 1)
         IN  shorter \cup {Append(s, x) : s \in {t \in shorter : Len(t) = n - 1}, x \in S}

----------------------------------------------------------------------------
(* The exception classes (x509.py 78-99): each stores the offending value  *)
(* it is raised with.                                                      *)

InvalidVersion(parsed_version) ==
    [kind |-> "InvalidVersion", version |-> "none", parsed_version |-> parsed_version]

DuplicateExtension(oid) == [kind |-> "DuplicateExtension", oid |-> oid]

UnsupportedExtension(oid) == [kind |-> "UnsupportedExtension", oid |-> oid]

----------------------------------------------------------------------------
(* Extension (x509.py 202-218): the constructor stores its three arguments *)
(* and the read-only properties return them.                               *)

\* The constructor with two of its assignments crossed.
Extension_crossed(oid, critical, value) ==
    [oid |-> value, critical |-> critical, value |-> oid]

\* The constructor dropping the critical flag it is given.
Extension_nocritical(oid, critical, value) ==
    [oid |-> oid, critical |-> FALSE, value |-> value]

Extension(oid, critical, value) ==
    [oid |-> oid, critical |-> critical, value |-> value]

NoExtension == [oid |-> NoOid, critical |-> FALSE, value |-> "none"]

Extensions_iter(exts) == exts

Extensions_len(exts) == Len(exts)

OidsOf(exts) == {exts[i].oid : i \in 1..Len(exts)}

\* Extensions.get_extension_for_oid (x509.py 188-193): the first entry, in
\* iteration order, whose oid equals the argument; ExtensionNotFound carrying
\* the argument when the loop ends without one.
ExtensionNotFound(oid) ==
    [kind |-> "ExtensionNotFound", oid |-> oid, ext |-> NoExtension]

RECURSIVE ForLoopFind(_, _, _)
ForLoopFind(exts, i, oid) ==
    IF i > Len(exts)
    THEN ExtensionNotFound(oid)
    ELSE IF exts[i].oid = oid
         THEN [kind |-> "return", oid |-> oid, ext |-> exts[i]]
         ELSE ForLoopFind(exts, i + 1, oid)

\* The loop with its raise forgotten: it falls off the end and returns None.
get_extension_for_oid_noraise(exts, oid) ==
    LET r == ForLoopFind(exts, 1, oid)
    IN  IF r.kind = "ExtensionNotFound"
        THEN [kind |-> "return", oid |-> oid, ext |-> NoExtension]
        ELSE r

\* The loop started one entry late.
get_extension_for_oid_skipfirst(exts, oid) == ForLoopFind(exts, 2, oid)

get_extension_for_oid(exts, oid) == ForLoopFind(Extensions_iter(exts), 1, oid)

NoLookup == [kind |-> "none", oid |-> NoOid, ext |-> NoExtension]

----------------------------------------------------------------------------
(* The extension-set build (spec section 4.2).  One raw record is examined *)
(* per step, in sequence order.                                            *)

Running == [kind |-> "running", oid |-> NoOid]
Built == [kind |-> "Extensions", oid |-> NoOid]

\* The steps with the opaque-and-critical test ahead of the duplicate test.
ExamineRecord_swapped(rec, acc) ==
    IF rec.value = Opaque /\ rec.critical
    THEN UnsupportedExtension(rec.oid)
    ELSE IF rec.oid \in OidsOf(acc)
         THEN DuplicateExtension(rec.oid)
         ELSE IF rec.value = Opaque
              THEN [kind |-> "omit", oid |-> rec.oid]
              ELSE [kind |-> "accept", oid |-> rec.oid]

\* Steps 2-5 for one record against the entries accepted so far.
ExamineRecord(rec, acc) ==
    IF rec.oid \in OidsOf(acc)
    THEN DuplicateExtension(rec.oid)
    ELSE IF rec.value = Opaque /\ rec.critical
         THEN UnsupportedExtension(rec.oid)
         ELSE IF rec.value = Opaque
              THEN [kind |-> "omit", oid |-> rec.oid]
              ELSE [kind |-> "accept", oid |-> rec.oid]

\* The whole build as one computation: the outcome and, on success, the list
\* the Extensions value holds.
RECURSIVE BuildFrom(_, _, _)
BuildFrom(records, i, acc) ==
    IF i > Len(records)
    THEN [kind |-> "Extensions", oid |-> NoOid, exts |-> acc]
    ELSE LET rec == records[i]
             step == ExamineRecord(rec, acc)
         IN  IF step.kind \in {"DuplicateExtension", "UnsupportedExtension"}
             THEN [kind |-> step.kind, oid |-> step.oid, exts |-> <<>>]
             ELSE IF step.kind = "omit"
                  THEN BuildFrom(records, i + 1, acc)
                  ELSE BuildFrom(records, i + 1,
                                 Append(acc, Extension(rec.oid, rec.critical, rec.value)))

BuildExtensions(records) == BuildFrom(records, 1, <<>>)

----------------------------------------------------------------------------
(* Extensions made directly from a caller's list (x509.py 184-199):        *)
(* __init__ keeps the list object it is given, so the Extensions object    *)
(* and the caller share one list.                                          *)

MaxList == 3         \* longest list a caller builds

CallerList == "callerList"

NoObject == [extensions |-> "none"]

ExtensionsInit(extensions) == [extensions |-> extensions]

ExtensionObjects == {Extension(o, c, Typed) : o \in ExtensionOids, c \in BOOLEAN}

----------------------------------------------------------------------------
(* The memoized extensions accessor of a Certificate (spec sections 3, 4.2 *)
(* and 5): the first access is guarded, builds and stores the outcome;     *)
(* later accesses return what is stored.                                   *)

MaxCertRaw == 2      \* longest raw extension sequence of a Certificate
MaxReads == 2        \* accesses each reader makes
MaxBuilds == 3       \* cap on the build counter

Readers == {"r1", "r2"}

NoReader == "none"

NoCache == [kind |-> "none", oid |-> NoOid, exts |-> <<>>]

\* No guard at all: every reader may enter.
GuardFree_unguarded == TRUE

GuardFree == guard = NoReader

----------------------------------------------------------------------------
(* KeyUsage (x509.py 272-316). *)

PlainBits == {"digital_signature", "content_commitment", "key_encipherment",
              "data_encipherment", "key_agreement", "key_cert_sign", "crl_sign"}

GuardedBits == {"encipher_only", "decipher_only"}

KeyUsageBits == PlainBits \cup GuardedBits

NoBits == [b \in KeyUsageBits |-> FALSE]

NoKeyUsage == [kind |-> "none", f |-> NoBits]

\* __init__ with "and" where the condition has "or".
KeyUsageInit_and(a) ==
    IF ~a["key_agreement"] /\ (a["encipher_only"] /\ a["decipher_only"])
    THEN [kind |-> "ValueError", f |-> NoBits]
    ELSE [kind |-> "KeyUsage", f |-> a]

\* KeyUsage.__init__ (x509.py 273-290).
KeyUsageInit(a) ==
    IF ~a["key_agreement"] /\ (a["encipher_only"] \/ a["decipher_only"])
    THEN [kind |-> "ValueError", f |-> NoBits]
    ELSE [kind |-> "KeyUsage", f |-> a]

NoRead == [prop |-> "none", kind |-> "none", value |-> FALSE]

\* The seven read_only_property accessors and key_agreement (x509.py 292-298).
read_only_property(ku, prop) == [prop |-> prop, kind |-> "return", value |-> ku.f[prop]]

\* KeyUsage.encipher_only (x509.py 300-307).
encipher_only(ku) ==
    IF ~ku.f["key_agreement"]
    THEN [prop |-> "encipher_only", kind |-> "ValueError", value |-> FALSE]
    ELSE [prop |-> "encipher_only", kind |-> "return", value |-> ku.f["encipher_only"]]

\* The getter copied from encipher_only with its field left unchanged.
decipher_only_copied(ku) ==
    IF ~ku.f["key_agreement"]
    THEN [prop |-> "decipher_only", kind |-> "ValueError", value |-> FALSE]
    ELSE [prop |-> "decipher_only", kind |-> "return", value |-> ku.f["encipher_only"]]

\* KeyUsage.decipher_only (x509.py 309-316).
decipher_only(ku) ==
    IF ~ku.f["key_agreement"]
    THEN [prop |-> "decipher_only", kind |-> "ValueError", value |-> FALSE]
    ELSE [prop |-> "decipher_only", kind |-> "return", value |-> ku.f["decipher_only"]]

----------------------------------------------------------------------------
(* BasicConstraints (x509.py 245-265).  A Python argument is modelled by   *)
(* its type and an integer payload: 0/1 for a bool, the number for an int, *)
(* tenths for a float, 0 for None and for a string.                        *)

MaxPathLength == 6   \* largest magnitude of an integer path_length tried

PyNone == [t |-> "NoneType", v |-> 0]
PyBool(b) == [t |-> "bool", v |-> IF b THEN 1 ELSE 0]
PyInt(n) == [t |-> "int", v |-> n]
PyFloat(tenths) == [t |-> "float", v |-> tenths]
PyStr == [t |-> "str", v |-> 0]

\* isinstance(x, bool)
IsBool(x) == x.t = "bool"

\* isinstance(x, six.integer_types): bool is a subclass of int.
IsIntegerType(x) == x.t \in {"int", "bool"}

CaValues == {PyBool(TRUE), PyBool(FALSE), PyInt(0), PyInt(1), PyStr, PyNone}

PathLengthValues ==
    {PyNone, PyStr, PyFloat(11), PyBool(TRUE), PyBool(FALSE)}
        \cup {PyInt(n) : n \in (0 - MaxPathLength)..MaxPathLength}

NoArgs == [ca |-> PyNone, path_length |-> PyNone]

NoBasicConstraints == [kind |-> "none", ca |-> PyNone, path_length |-> PyNone]

BasicConstraintsError(kind) == [kind |-> kind, ca |-> PyNone, path_length |-> PyNone]

\* __init__ without the check that path_length needs ca.
BasicConstraintsInit_nocacheck(ca, path_length) ==
    IF ~IsBool(ca)
    THEN BasicConstraintsError("TypeError")
    ELSE IF path_length # PyNone /\ (~IsIntegerType(path_length) \/ path_length.v < 0)
         THEN BasicConstraintsError("TypeError")
         ELSE [kind |-> "BasicConstraints", ca |-> ca, path_length |-> path_length]

\* BasicConstraints.__init__ (x509.py 246-262).
BasicConstraintsInit(ca, path_length) ==
    IF ~IsBool(ca)
    THEN BasicConstraintsError("TypeError")
    ELSE IF path_length # PyNone /\ ca.v = 0
         THEN BasicConstraintsError("ValueError")
         ELSE IF path_length # PyNone
                    /\ (~IsIntegerType(path_length) \/ path_length.v < 0)
              THEN BasicConstraintsError("TypeError")
              ELSE [kind |-> "BasicConstraints", ca |-> ca, path_length |-> path_length]

NoBcRead == [prop |-> "none", value |-> PyNone]

\* BasicConstraints.ca and .path_length (x509.py 264-265).
BasicConstraints_ca(bc) == [prop |-> "ca", value |-> bc.ca]
BasicConstraints_path_length(bc) == [prop |-> "path_length", value |-> bc.path_length]

----------------------------------------------------------------------------
(* The OID registries (x509.py 16-54 and 335-363) and Version (57-59). *)

MaxRawVersion == 4   \* largest raw version integer decoded

OID_NAMES ==
    [o \in {"2.5.4.3"} |-> "commonName"] @@
    [o \in {"2.5.4.6"} |-> "countryName"] @@
    [o \in {"2.5.4.7"} |-> "localityName"] @@
    [o \in {"2.5.4.8"} |-> "stateOrProvinceName"] @@
    [o \in {"2.5.4.10"} |-> "organizationName"] @@
    [o \in {"2.5.4.11"} |-> "organizationalUnitName"] @@
    [o \in {"2.5.4.5"} |-> "serialNumber"] @@
    [o \in {"2.5.4.4"} |-> "surname"] @@
    [o \in {"2.5.4.42"} |-> "givenName"] @@
    [o \in {"2.5.4.12"} |-> "title"] @@
    [o \in {"2.5.4.44"} |-> "generationQualifier"] @@
    [o \in {"2.5.4.46"} |-> "dnQualifier"] @@
    [o \in {"2.5.4.65"} |-> "pseudonym"] @@
    [o \in {"0.9.2342.19200300.100.1.25"} |-> "domainComponent"] @@
    [o \in {"1.2.840.113549.1.9.1"} |-> "emailAddress"] @@
    [o \in {"1.2.840.113549.1.1.4"} |-> "md5WithRSAEncryption"] @@
    [o \in {"1.2.840.113549.1.1.5"} |-> "sha1WithRSAEncryption"] @@
    [o \in {"1.2.840.113549.1.1.14"} |-> "sha224WithRSAEncryption"] @@
    [o \in {"1.2.840.113549.1.1.11"} |-> "sha256WithRSAEncryption"] @@
    [o \in {"1.2.840.113549.1.1.12"} |-> "sha384WithRSAEncryption"] @@
    [o \in {"1.2.840.113549.1.1.13"} |-> "sha512WithRSAEncryption"] @@
    [o \in {"1.2.840.10045.4.3.1"} |-> "ecdsa-with-SHA224"] @@
    [o \in {"1.2.840.10045.4.3.2"} |-> "ecdsa-with-SHA256"] @@
    [o \in {"1.2.840.10045.4.3.3"} |-> "ecdsa-with-SHA384"] @@
    [o \in {"1.2.840.10045.4.3.4"} |-> "ecdsa-with-SHA512"] @@
    [o \in {"1.2.840.10040.4.3"} |-> "dsa-with-sha1"] @@
    [o \in {"2.16.840.1.101.3.4.3.1"} |-> "dsa-with-sha224"] @@
    [o \in {"2.16.840.1.101.3.4.3.2"} |-> "dsa-with-sha256"] @@
    [o \in {"1.3.6.1.5.5.7.3.1"} |-> "serverAuth"] @@
    [o \in {"1.3.6.1.5.5.7.3.2"} |-> "clientAuth"] @@
    [o \in {"1.3.6.1.5.5.7.3.3"} |-> "codeSigning"] @@
    [o \in {"1.3.6.1.5.5.7.3.4"} |-> "emailProtection"] @@
    [o \in {"1.3.6.1.5.5.7.3.8"} |-> "timeStamping"] @@
    [o \in {"1.3.6.1.5.5.7.3.9"} |-> "OCSPSigning"] @@
    [o \in {"2.5.29.19"} |-> "basicConstraints"] @@
    [o \in {"2.5.29.15"} |-> "keyUsage"] @@
    [o \in {"2.5.29.37"} |-> "extendedKeyUsage"]

OID_RSA_WITH_MD5 == "1.2.840.113549.1.1.4"
OID_RSA_WITH_SHA1 == "1.2.840.113549.1.1.5"
OID_RSA_WITH_SHA224 == "1.2.840.113549.1.1.14"
OID_RSA_WITH_SHA256 == "1.2.840.113549.1.1.11"
OID_RSA_WITH_SHA384 == "1.2.840.113549.1.1.12"
OID_RSA_WITH_SHA512 == "1.2.840.113549.1.1.13"
OID_ECDSA_WITH_SHA224 == "1.2.840.10045.4.3.1"
OID_ECDSA_WITH_SHA256 == "1.2.840.10045.4.3.2"
OID_ECDSA_WITH_SHA384 == "1.2.840.10045.4.3.3"
OID_ECDSA_WITH_SHA512 == "1.2.840.10045.4.3.4"
OID_DSA_WITH_SHA1 == "1.2.840.10040.4.3"
OID_DSA_WITH_SHA224 == "2.16.840.1.101.3.4.3.1"
OID_DSA_WITH_SHA256 == "2.16.840.1.101.3.4.3.2"

\* The table with the ECDSA rows shifted one hash down.
SIG_OIDS_TO_HASH_shifted ==
    [o \in {OID_RSA_WITH_MD5} |-> "md5"] @@
    [o \in {OID_RSA_WITH_SHA1} |-> "sha1"] @@
    [o \in {OID_RSA_WITH_SHA224} |-> "sha224"] @@
    [o \in {OID_RSA_WITH_SHA256} |-> "sha256"] @@
    [o \in {OID_RSA_WITH_SHA384} |-> "sha384"] @@
    [o \in {OID_RSA_WITH_SHA512} |-> "sha512"] @@
    [o \in {OID_ECDSA_WITH_SHA224} |-> "sha1"] @@
    [o \in {OID_ECDSA_WITH_SHA256} |-> "sha224"] @@
    [o \in {OID_ECDSA_WITH_SHA384} |-> "sha256"] @@
    [o \in {OID_ECDSA_WITH_SHA512} |-> "sha384"] @@
    [o \in {OID_DSA_WITH_SHA1} |-> "sha1"] @@
    [o \in {OID_DSA_WITH_SHA224} |-> "sha224"] @@
    [o \in {OID_DSA_WITH_SHA256} |-> "sha256"]

\* _SIG_OIDS_TO_HASH (x509.py 349-363); a hash algorithm object is modelled by
\* its name.
SIG_OIDS_TO_HASH ==
    [o \in {OID_RSA_WITH_MD5} |-> "md5"] @@
    [o \in {OID_RSA_WITH_SHA1} |-> "sha1"] @@
    [o \in {OID_RSA_WITH_SHA224} |-> "sha224"] @@
    [o \in {OID_RSA_WITH_SHA256} |-> "sha256"] @@
    [o \in {OID_RSA_WITH_SHA384} |-> "sha384"] @@
    [o \in {OID_RSA_WITH_SHA512} |-> "sha512"] @@
    [o \in {OID_ECDSA_WITH_SHA224} |-> "sha224"] @@
    [o \in {OID_ECDSA_WITH_SHA256} |-> "sha256"] @@
    [o \in {OID_ECDSA_WITH_SHA384} |-> "sha384"] @@
    [o \in {OID_ECDSA_WITH_SHA512} |-> "sha512"] @@
    [o \in {OID_DSA_WITH_SHA1} |-> "sha1"] @@
    [o \in {OID_DSA_WITH_SHA224} |-> "sha224"] @@
    [o \in {OID_DSA_WITH_SHA256} |-> "sha256"]

NoSigResult == [kind |-> "none", oid |-> NoOid, hash |-> "none"]

\* Signature-hash lookup (spec section 4.1): the table's entry, or the
\* unsupported-signature-algorithm condition for an OID the table lacks.
lookup_signature_hash(oid) ==
    IF oid \in DOMAIN SIG_OIDS_TO_HASH
    THEN [kind |-> "return", oid |-> oid, hash |-> SIG_OIDS_TO_HASH[oid]]
    ELSE [kind |-> "UnsupportedSignatureAlgorithm", oid |-> oid, hash |-> "none"]

\* OIDs looked up: every registered OID and one the registries do not know.
LookupOids == DOMAIN OID_NAMES \cup {OID_UNKNOWN}

\* Version with v3 given its ordinal instead of its encoded value.
Version_ordinal == [v1 |-> 0, v3 |-> 3]

\* class Version(Enum) (x509.py 57-59).
Version == [v1 |-> 0, v3 |-> 2]

NoVersionResult == [kind |-> "none", version |-> "none", parsed_version |-> 0]

\* Version decoding (spec section 4.5): the member whose value is the raw
\* integer, or InvalidVersion carrying the raw integer.
DecodeVersion(n) ==
    IF \E m \in DOMAIN Version : Version[m] = n
    THEN [kind |-> "return",
          version |-> CHOOSE m \in DOMAIN Version : Version[m] = n,
          parsed_version |-> 0]
    ELSE InvalidVersion(n)

RawVersions == (0 - 1)..MaxRawVersion

----------------------------------------------------------------------------
(* Extension.__init__ on arbitrary Python arguments (x509.py 203-214).  An *)
(* oid argument is modelled by its type and its text.                      *)

PyOid(dotted) == [t |-> "ObjectIdentifier", s |-> dotted]
PyText(text) == [t |-> "str", s |-> text]
NoOidArg == [t |-> "NoneType", s |-> "none"]

\* isinstance(x, ObjectIdentifier)
IsObjectIdentifier(x) == x.t = "ObjectIdentifier"

OidArgs ==
    {PyOid(o) : o \in ExtensionOids}
        \cup {PyText("notanoid"), PyText(OID_BASIC_CONSTRAINTS), NoOidArg}

CriticalArgs == {PyBool(TRUE), PyBool(FALSE), PyInt(0), PyInt(1), PyStr, PyNone}

ValueArgs == {Typed, Opaque, "none"}

NoExtensionArgs == [oid |-> NoOidArg, critical |-> PyNone, value |-> "none"]

NoExtensionObject ==
    [kind |-> "none", oid |-> NoOidArg, critical |-> PyNone, value |-> "none"]

ExtensionTypeError ==
    [kind |-> "TypeError", oid |-> NoOidArg, critical |-> PyNone, value |-> "none"]

\* __init__ testing critical against int, which 0 and 1 pass as well.
ExtensionInit_intcritical(oid, critical, value) ==
    IF ~IsObjectIdentifier(oid)
    THEN ExtensionTypeError
    ELSE IF ~IsIntegerType(critical)
         THEN ExtensionTypeError
         ELSE [kind |-> "Extension", oid |-> oid, critical |-> critical,
               value |-> value]

\* Extension.__init__ (x509.py 203-214).
ExtensionInit(oid, critical, value) ==
    IF ~IsObjectIdentifier(oid)
    THEN ExtensionTypeError
    ELSE IF ~IsBool(critical)
         THEN ExtensionTypeError
         ELSE [kind |-> "Extension", oid |-> oid, critical |-> critical,
               value |-> value]

NoExtensionRead ==
    [prop |-> "none", oid |-> NoOidArg, critical |-> PyNone, value |-> "none"]

\* Extension.oid, .critical and .value (x509.py 216-218).
Extension_oid(ex) == [NoExtensionRead EXCEPT !.prop = "oid", !.oid = ex.oid]
Extension_critical(ex) ==
    [NoExtensionRead EXCEPT !.prop = "critical", !.critical = ex.critical]
Extension_value(ex) == [NoExtensionRead EXCEPT !.prop = "value", !.value = ex.value]

----------------------------------------------------------------------------
(* Name (x509.py 156-176) over NameAttribute (x509.py 102-113). *)

MaxAttributes == 3   \* longest attribute list a Name holds

OID_COMMON_NAME == "2.5.4.3"
OID_COUNTRY_NAME == "2.5.4.6"
OID_LOCALITY_NAME == "2.5.4.7"

NameAttribute(oid, value) == [oid |-> oid, value |-> value]

\* Attributes a Name is made of: two OIDs, two values each.
NameAttributes ==
    {NameAttribute(o, v) : o \in {OID_COMMON_NAME, OID_COUNTRY_NAME}, v \in {"a", "b"}}

\* OIDs asked for: the two in use and one no attribute has.
NameOids == {OID_COMMON_NAME, OID_COUNTRY_NAME, OID_LOCALITY_NAME}

Name_iter(attributes) == attributes

\* [i for i in self if i.oid == oid]
RECURSIVE Comprehension(_, _, _)
Comprehension(attributes, i, oid) ==
    IF i > Len(attributes)
    THEN <<>>
    ELSE IF attributes[i].oid = oid
         THEN <<attributes[i]>> \o Comprehension(attributes, i + 1, oid)
         ELSE Comprehension(attributes, i + 1, oid)

\* The lookup written like Extensions.get_extension_for_oid: it stops at the
\* first match.
get_attributes_for_oid_first(attributes, oid) ==
    LET all == Comprehension(attributes, 1, oid)
    IN  [kind |-> "return", attrs |-> IF all = <<>> THEN <<>> ELSE <<all[1]>>]

\* Name.get_attributes_for_oid (x509.py 160-161).
get_attributes_for_oid(attributes, oid) ==
    [kind |-> "return", attrs |-> Comprehension(Name_iter(attributes), 1, oid)]

NoNameResult == [kind |-> "none", attrs |-> <<>>]

----------------------------------------------------------------------------
(* States in which a part of the model is not in use. *)

IdleExtension ==
    exArgs = NoExtensionArgs /\ exObj = NoExtensionObject /\ exRead = NoExtensionRead

IdleName == nameAttrs = <<>> /\ nameOid = NoOid /\ nameResult = NoNameResult

IdleBuild == raw = <<>> /\ idx = 1 /\ accepted = <<>> /\ outcome = Running

IdleLookup == lookupOid = NoOid /\ lookupResult = NoLookup

IdleUser == listObj = <<>> /\ extsObj = NoObject

IdleCert ==
    /\ certRaw = <<>>
    /\ cache = NoCache
    /\ guard = NoReader
    /\ pc = [r \in Readers |-> "idle"]
    /\ reads = [r \in Readers |-> 0]
    /\ builds = 0
    /\ observed = {}

IdleKeyUsage == kuArgs = NoBits /\ kuObj = NoKeyUsage /\ kuRead = NoRead

IdleBasicConstraints == bcArgs = NoArgs /\ bcObj = NoBasicConstraints /\ bcRead = NoBcRead

IdleRegistry ==
    /\ sigOid = NoOid
    /\ sigResult = NoSigResult
    /\ rawVersion = 0
    /\ verResult = NoVersionResult

----------------------------------------------------------------------------
(* The build of one raw sequence, then lookups on the set it produced. *)

Init ==
    /\ raw \in SeqsUpTo(RawRecords, MaxRaw)
    /\ idx = 1
    /\ accepted = <<>>
    /\ outcome = Running
    /\ IdleLookup /\ IdleUser /\ IdleCert
    /\ IdleKeyUsage /\ IdleBasicConstraints /\ IdleRegistry
    /\ IdleExtension /\ IdleName

otherThanBuild == <<userVars, certVars, kuVars, bcVars, regVars, exVars, nameVars>>

BuildPending == outcome = Running /\ idx <= Len(raw)

BuildDuplicate ==
    /\ BuildPending
    /\ ExamineRecord(raw[idx], accepted).kind = "DuplicateExtension"
    /\ outcome' = ExamineRecord(raw[idx], accepted)
    /\ UNCHANGED <<raw, idx, accepted, lookupVars, otherThanBuild>>

BuildUnsupported ==
    /\ BuildPending
    /\ ExamineRecord(raw[idx], accepted).kind = "UnsupportedExtension"
    /\ outcome' = ExamineRecord(raw[idx], accepted)
    /\ UNCHANGED <<raw, idx, accepted, lookupVars, otherThanBuild>>

BuildOmit ==
    /\ BuildPending
    /\ ExamineRecord(raw[idx], accepted).kind = "omit"
    /\ idx' = idx + 1
    /\ UNCHANGED <<raw, accepted, outcome, lookupVars, otherThanBuild>>

BuildAccept ==
    /\ BuildPending
    /\ ExamineRecord(raw[idx], accepted).kind = "accept"
    /\ accepted' = Append(accepted,
                          Extension(raw[idx].oid, raw[idx].critical, raw[idx].value))
    /\ idx' = idx + 1
    /\ UNCHANGED <<raw, outcome, lookupVars, otherThanBuild>>

\* The sequence is exhausted: the accepted list becomes the Extensions value.
BuildFinish ==
    /\ outcome = Running
    /\ idx > Len(raw)
    /\ outcome' = Built
    /\ UNCHANGED <<raw, idx, accepted, lookupVars, otherThanBuild>>

\* A caller queries the built set.
LookupBuilt(oid) ==
    /\ outcome = Built
    /\ lookupOid' = oid
    /\ lookupResult' = get_extension_for_oid(accepted, oid)
    /\ UNCHANGED <<buildVars, otherThanBuild>>

Next ==
    \/ BuildDuplicate
    \/ BuildUnsupported
    \/ BuildOmit
    \/ BuildAccept
    \/ BuildFinish
    \/ \E oid \in ExtensionOids : LookupBuilt(oid)

Spec == Init /\ [][Next]_vars

----------------------------------------------------------------------------
(* Properties of the build. *)

BuildEnded == outcome # Running

SharedOid(i, j) == i < j /\ raw[i].oid = raw[j].oid

\* Positions of the records that repeat the OID of an earlier typed record.
Repeats ==
    {j \in 1..Len(raw) : \E i \in 1..(j - 1) : raw[i].value = Typed /\ SharedOid(i, j)}

\* Positions of the opaque critical records.
OpaqueCritical == {k \in 1..Len(raw) : raw[k].value = Opaque /\ raw[k].critical}

Least(S) == CHOOSE k \in S : \A m \in S : k <= m

C2_SingleOpaqueRecord ==
    (BuildEnded /\ Len(raw) = 1 /\ raw[1].value = Opaque) =>
        IF raw[1].critical
        THEN outcome = [kind |-> "UnsupportedExtension", oid |-> raw[1].oid]
        ELSE /\ outcome = Built
             /\ Extensions_len(accepted) = 0
             /\ lookupResult # NoLookup =>
                    lookupResult = [kind |-> "ExtensionNotFound",
                                    oid |-> lookupOid, ext |-> NoExtension]

\* C2 witness: the only record is opaque and not critical, the build succeeded
\* and the lookup of that record's OID raised ExtensionNotFound.
C2_Witness ==
    /\ Len(raw) = 1 /\ raw[1].value = Opaque /\ ~raw[1].critical
    /\ outcome = Built
    /\ lookupOid = raw[1].oid
    /\ lookupResult.kind = "ExtensionNotFound"

----------------------------------------------------------------------------
(* A caller makes an Extensions from its own list, keeps using the list,   *)
(* and queries the Extensions.                                             *)

InitExtensions ==
    /\ IdleBuild /\ IdleLookup /\ IdleUser /\ IdleCert
    /\ IdleKeyUsage /\ IdleBasicConstraints /\ IdleRegistry
    /\ IdleExtension /\ IdleName

otherThanUser == <<buildVars, certVars, kuVars, bcVars, regVars, exVars, nameVars>>

\* What iterating the Extensions object yields: the list it refers to.
Contents(obj) == IF obj.extensions = CallerList THEN listObj ELSE <<>>

\* list.append on the caller's list, before or after it was handed over.
ListAppend(e) ==
    /\ Len(listObj) < MaxList
    /\ listObj' = Append(listObj, e)
    /\ UNCHANGED <<extsObj, lookupVars, otherThanUser>>

\* Extensions(listObj)
ConstructExtensions ==
    /\ extsObj = NoObject
    /\ extsObj' = ExtensionsInit(CallerList)
    /\ UNCHANGED <<listObj, lookupVars, otherThanUser>>

LookupUser(oid) ==
    /\ extsObj # NoObject
    /\ lookupOid' = oid
    /\ lookupResult' = get_extension_for_oid(Contents(extsObj), oid)
    /\ UNCHANGED <<userVars, otherThanUser>>

NextExtensions ==
    \/ \E e \in ExtensionObjects : ListAppend(e)
    \/ ConstructExtensions
    \/ \E oid \in ExtensionOids : LookupUser(oid)

SpecExtensions == InitExtensions /\ [][NextExtensions]_vars

Range(seq) == {seq[i] : i \in 1..Len(seq)}

UniqueOids(exts) ==
    \A i, j \in 1..Len(exts) : i # j => exts[i].oid # exts[j].oid

\* C3: every Extensions value that exists holds no two entries with the same
\* OID, at construction and at every later moment of its life.
C3_ExtensionsUniqueByOid ==
    extsObj # NoObject => UniqueOids(Contents(extsObj))

\* C4: a get_extension_for_oid call leaves the set as it was; when no entry
\* has the requested OID it raises ExtensionNotFound carrying that OID and
\* returns nothing; otherwise it returns an entry of the set whose OID is the
\* requested one.
C4_LookupByOid ==
    [][(\E oid \in ExtensionOids : LookupUser(oid)) =>
          /\ listObj' = listObj /\ extsObj' = extsObj
          /\ (\A e \in Range(listObj) : e.oid # lookupOid') =>
                 lookupResult' = [kind |-> "ExtensionNotFound",
                                  oid |-> lookupOid', ext |-> NoExtension]
          /\ (\E e \in Range(listObj) : e.oid = lookupOid') =>
                 /\ lookupResult'.kind = "return"
                 /\ lookupResult'.ext \in Range(listObj)
                 /\ lookupResult'.ext.oid = lookupOid']_vars

\* C4 witness: a lookup returned the critical second entry of a two-entry set
\* whose first entry has another OID.
C4_Witness ==
    /\ extsObj # NoObject
    /\ Len(listObj) = 2
    /\ listObj[1].oid # lookupOid
    /\ lookupResult = [kind |-> "return", oid |-> lookupOid, ext |-> listObj[2]]
    /\ listObj[2].critical

----------------------------------------------------------------------------
(* Readers of one Certificate's extensions. *)

InitCert ==
    /\ IdleBuild /\ IdleLookup /\ IdleUser
    /\ IdleKeyUsage /\ IdleBasicConstraints /\ IdleRegistry
    /\ IdleExtension /\ IdleName
    /\ certRaw \in SeqsUpTo(RawRecords, MaxCertRaw)
    /\ cache = NoCache
    /\ guard = NoReader
    /\ pc = [r \in Readers |-> "idle"]
    /\ reads = [r \in Readers |-> 0]
    /\ builds = 0
    /\ observed = {}

otherThanCert == <<buildVars, lookupVars, userVars, kuVars, bcVars, regVars, exVars, nameVars>>

\* A reader starts an access and passes the guard.
Enter(r) ==
    /\ pc[r] = "idle"
    /\ reads[r] < MaxReads
    /\ GuardFree
    /\ guard' = r
    /\ pc' = [pc EXCEPT ![r] = "check"]
    /\ UNCHANGED <<certRaw, cache, reads, builds, observed, otherThanCert>>

\* Nothing is stored yet: this access is the one that builds.
CacheMiss(r) ==
    /\ pc[r] = "check"
    /\ cache = NoCache
    /\ pc' = [pc EXCEPT ![r] = "build"]
    /\ UNCHANGED <<certRaw, cache, guard, reads, builds, observed, otherThanCert>>

CacheHit(r) ==
    /\ pc[r] = "check"
    /\ cache # NoCache
    /\ pc' = [pc EXCEPT ![r] = "return"]
    /\ UNCHANGED <<certRaw, cache, guard, reads, builds, observed, otherThanCert>>

\* The build runs over the raw records and its outcome is stored.
RunBuild(r) ==
    /\ pc[r] = "build"
    /\ builds < MaxBuilds
    /\ cache' = BuildExtensions(certRaw)
    /\ builds' = builds + 1
    /\ pc' = [pc EXCEPT ![r] = "return"]
    /\ UNCHANGED <<certRaw, guard, reads, observed, otherThanCert>>

\* The access hands the stored outcome to its caller and leaves the guard.
Return(r) ==
    /\ pc[r] = "return"
    /\ observed' = observed \cup {cache}
    /\ reads' = [reads EXCEPT ![r] = @ + 1]
    /\ guard' = NoReader
    /\ pc' = [pc EXCEPT ![r] = "idle"]
    /\ UNCHANGED <<certRaw, cache, builds, otherThanCert>>

NextCert ==
    \E r \in Readers :
        \/ Enter(r)
        \/ CacheMiss(r)
        \/ CacheHit(r)
        \/ RunBuild(r)
        \/ Return(r)

SpecCert == InitCert /\ [][NextCert]_vars

\* C5: for one Certificate the build runs at most once, and every completed
\* access, whichever reader made it and in whatever interleaving, observed
\* the one outcome of that build: the same Extensions value or the same
\* failure.
C5_BuildOnce ==
    /\ builds <= 1
    /\ Cardinality(observed) <= 1
    /\ observed # {} => (builds = 1 /\ observed = {BuildExtensions(certRaw)})

\* C5 witness: both readers completed two accesses each of a Certificate
\* whose build fails with DuplicateExtension, after a single build.
C5_Witness ==
    /\ \A r \in Readers : reads[r] = 2
    /\ builds = 1
    /\ \E o \in observed : o.kind = "DuplicateExtension"

----------------------------------------------------------------------------
(* KeyUsage: construction from nine booleans, then property reads. *)

InitKeyUsage ==
    /\ IdleBuild /\ IdleLookup /\ IdleUser /\ IdleCert
    /\ IdleKeyUsage /\ IdleBasicConstraints /\ IdleRegistry
    /\ IdleExtension /\ IdleName

otherThanKeyUsage == <<buildVars, lookupVars, userVars, certVars, bcVars, regVars, exVars, nameVars>>

\* KeyUsage(...): the arguments, and the object or the error they give.
ConstructKeyUsage(a) ==
    /\ kuArgs' = a
    /\ kuObj' = KeyUsageInit(a)
    /\ kuRead' = NoRead
    /\ UNCHANGED otherThanKeyUsage

ReadPlainBit(prop) ==
    /\ kuObj.kind = "KeyUsage"
    /\ kuRead' = read_only_property(kuObj, prop)
    /\ UNCHANGED <<kuArgs, kuObj, otherThanKeyUsage>>

ReadEncipherOnly ==
    /\ kuObj.kind = "KeyUsage"
    /\ kuRead' = encipher_only(kuObj)
    /\ UNCHANGED <<kuArgs, kuObj, otherThanKeyUsage>>

ReadDecipherOnly ==
    /\ kuObj.kind = "KeyUsage"
    /\ kuRead' = decipher_only(kuObj)
    /\ UNCHANGED <<kuArgs, kuObj, otherThanKeyUsage>>

NextKeyUsage ==
    \/ \E a \in [KeyUsageBits -> BOOLEAN] : ConstructKeyUsage(a)
    \/ \E prop \in PlainBits : ReadPlainBit(prop)
    \/ ReadEncipherOnly
    \/ ReadDecipherOnly

SpecKeyUsage == InitKeyUsage /\ [][NextKeyUsage]_vars

\* C6: KeyUsage(...) fails with ValueError, and yields no KeyUsage, exactly
\* when key_agreement is false and encipher_only or decipher_only (or both)
\* is true, whatever the other seven bits; every other combination of the
\* nine booleans yields a KeyUsage.
C6_KeyUsageConstruction ==
    kuObj # NoKeyUsage =>
        IF ~kuArgs["key_agreement"]
              /\ (kuArgs["encipher_only"] \/ kuArgs["decipher_only"])
        THEN kuObj.kind = "ValueError"
        ELSE kuObj.kind = "KeyUsage"

\* C6 witness: construction failed for key_agreement false, decipher_only true
\* and encipher_only false, with other bits set.
C6_Witness ==
    /\ kuObj.kind = "ValueError"
    /\ ~kuArgs["key_agreement"]
    /\ kuArgs["decipher_only"] /\ ~kuArgs["encipher_only"]
    /\ kuArgs["digital_signature"] /\ kuArgs["crl_sign"]

\* C7: on a constructed KeyUsage, reading encipher_only or decipher_only
\* returns the value given at construction when key_agreement is true and
\* fails with ValueError, returning no boolean, when it is false; each of the
\* other seven bits reads back as constructed.
C7_KeyUsageReads ==
    kuRead # NoRead =>
        /\ kuObj.kind = "KeyUsage"
        /\ kuRead.prop \in KeyUsageBits
        /\ IF kuRead.prop \in GuardedBits /\ ~kuArgs["key_agreement"]
           THEN kuRead.kind = "ValueError"
           ELSE kuRead.kind = "return" /\ kuRead.value = kuArgs[kuRead.prop]

\* C7 witness: with key_agreement true, decipher_only read back true on a
\* KeyUsage constructed with encipher_only false.
C7_Witness ==
    /\ kuObj.kind = "KeyUsage"
    /\ kuArgs["key_agreement"] /\ ~kuArgs["encipher_only"]
    /\ kuRead = [prop |-> "decipher_only", kind |-> "return", value |-> TRUE]

----------------------------------------------------------------------------
(* BasicConstraints: construction from two Python values, then reads. *)

InitBasicConstraints ==
    /\ IdleBuild /\ IdleLookup /\ IdleUser /\ IdleCert
    /\ IdleKeyUsage /\ IdleBasicConstraints /\ IdleRegistry
    /\ IdleExtension /\ IdleName

otherThanBasicConstraints ==
    <<buildVars, lookupVars, userVars, certVars, kuVars, regVars, exVars, nameVars>>

ConstructBasicConstraints(ca, path_length) ==
    /\ bcArgs' = [ca |-> ca, path_length |-> path_length]
    /\ bcObj' = BasicConstraintsInit(ca, path_length)
    /\ bcRead' = NoBcRead
    /\ UNCHANGED otherThanBasicConstraints

ReadCa ==
    /\ bcObj.kind = "BasicConstraints"
    /\ bcRead' = BasicConstraints_ca(bcObj)
    /\ UNCHANGED <<bcArgs, bcObj, otherThanBasicConstraints>>

ReadPathLength ==
    /\ bcObj.kind = "BasicConstraints"
    /\ bcRead' = BasicConstraints_path_length(bcObj)
    /\ UNCHANGED <<bcArgs, bcObj, otherThanBasicConstraints>>

NextBasicConstraints ==
    \/ \E ca \in CaValues, path_length \in PathLengthValues :
           ConstructBasicConstraints(ca, path_length)
    \/ ReadCa
    \/ ReadPathLength

SpecBasicConstraints == InitBasicConstraints /\ [][NextBasicConstraints]_vars

\* A non-negative integer in Python's sense: an instance of an integer type
\* (bool among them) that is not below zero.
NonNegativeInteger(x) == x.t \in {"int", "bool"} /\ x.v >= 0

\* C8: BasicConstraints(ca, path_length) constructs exactly when ca is a
\* boolean and either path_length is None, or ca is true and path_length is a
\* non-negative integer; on success ca and path_length read back as given, so
\* an existing BasicConstraints with a path_length has ca true.
C8_BasicConstraints ==
    bcObj # NoBasicConstraints =>
        /\ bcObj.kind = "BasicConstraints" <=>
               /\ bcArgs.ca \in {PyBool(TRUE), PyBool(FALSE)}
               /\ \/ bcArgs.path_length = PyNone
                  \/ /\ bcArgs.ca = PyBool(TRUE)
                     /\ NonNegativeInteger(bcArgs.path_length)
        /\ bcObj.kind = "BasicConstraints" =>
               /\ bcObj.ca = bcArgs.ca
               /\ bcObj.path_length = bcArgs.path_length
               /\ bcObj.path_length # PyNone => bcObj.ca = PyBool(TRUE)
               /\ bcRead.prop = "ca" => bcRead.value = bcArgs.ca
               /\ bcRead.prop = "path_length" => bcRead.value = bcArgs.path_length

\* C8 witness: BasicConstraints(ca=True, path_length=6) was constructed and
\* its path_length read back as 6.
C8_Witness ==
    /\ bcObj.kind = "BasicConstraints"
    /\ bcArgs = [ca |-> PyBool(TRUE), path_length |-> PyInt(6)]
    /\ bcRead = [prop |-> "path_length", value |-> PyInt(6)]

----------------------------------------------------------------------------
(* Registry lookups: the hash a signature OID implies, the Version a raw   *)
(* integer decodes to.                                                     *)

InitRegistry ==
    /\ IdleBuild /\ IdleLookup /\ IdleUser /\ IdleCert
    /\ IdleKeyUsage /\ IdleBasicConstraints /\ IdleRegistry
    /\ IdleExtension /\ IdleName

otherThanRegistry == <<buildVars, lookupVars, userVars, certVars, kuVars, bcVars, exVars, nameVars>>

LookupSignatureHash(oid) ==
    /\ sigOid' = oid
    /\ sigResult' = lookup_signature_hash(oid)
    /\ UNCHANGED <<rawVersion, verResult, otherThanRegistry>>

DecodeRawVersion(n) ==
    /\ rawVersion' = n
    /\ verResult' = DecodeVersion(n)
    /\ UNCHANGED <<sigOid, sigResult, otherThanRegistry>>

NextRegistry ==
    \/ \E oid \in LookupOids : LookupSignatureHash(oid)
    \/ \E n \in RawVersions : DecodeRawVersion(n)

SpecRegistry == InitRegistry /\ [][NextRegistry]_vars

\* The hash each signature algorithm's registered name spells out.
HashInName ==
    [n \in {"md5WithRSAEncryption"} |-> "md5"] @@
    [n \in {"sha1WithRSAEncryption", "dsa-with-sha1"} |-> "sha1"] @@
    [n \in {"sha224WithRSAEncryption", "ecdsa-with-SHA224", "dsa-with-sha224"}
        |-> "sha224"] @@
    [n \in {"sha256WithRSAEncryption", "ecdsa-with-SHA256", "dsa-with-sha256"}
        |-> "sha256"] @@
    [n \in {"sha384WithRSAEncryption", "ecdsa-with-SHA384"} |-> "sha384"] @@
    [n \in {"sha512WithRSAEncryption", "ecdsa-with-SHA512"} |-> "sha512"]

\* The OIDs the name registry knows as signature algorithms.
SignatureOids == {o \in DOMAIN OID_NAMES : OID_NAMES[o] \in DOMAIN HashInName}

\* C9: the signature-hash lookup returns, for an OID registered as a signature
\* algorithm, the hash that algorithm's name spells out (SHA-256 for RSA, ECDSA
\* and DSA with SHA-256); for any other OID it fails with the
\* unsupported-signature-algorithm condition and returns no hash.
C9_SignatureHash ==
    sigResult # NoSigResult =>
        IF sigOid \in SignatureOids
        THEN sigResult = [kind |-> "return", oid |-> sigOid,
                          hash |-> HashInName[OID_NAMES[sigOid]]]
        ELSE sigResult = [kind |-> "UnsupportedSignatureAlgorithm",
                          oid |-> sigOid, hash |-> "none"]

\* C9 witness: the lookup of the ECDSA-with-SHA256 OID returned SHA-256.
C9_Witness ==
    /\ sigOid = "1.2.840.10045.4.3.2"
    /\ sigResult.kind = "return"
    /\ sigResult.hash = "sha256"

\* C10: decoding raw 0 gives Version.v1 and raw 2 gives Version.v3; any other
\* raw integer fails with InvalidVersion whose parsed_version is that integer
\* and gives no Version.
C10_VersionDecoding ==
    verResult # NoVersionResult =>
        IF rawVersion = 0
        THEN verResult.kind = "return" /\ verResult.version = "v1"
        ELSE IF rawVersion = 2
             THEN verResult.kind = "return" /\ verResult.version = "v3"
             ELSE /\ verResult.kind = "InvalidVersion"
                  /\ verResult.parsed_version = rawVersion
                  /\ verResult.version = "none"

\* C10 witness: raw version 1 was decoded and failed with InvalidVersion
\* carrying 1.
C10_Witness ==
    /\ rawVersion = 1
    /\ verResult.kind = "InvalidVersion"
    /\ verResult.parsed_version = 1

----------------------------------------------------------------------------
(* Extension: construction from three Python values, then reads. *)

InitExtension ==
    /\ IdleBuild /\ IdleLookup /\ IdleUser /\ IdleCert
    /\ IdleKeyUsage /\ IdleBasicConstraints /\ IdleRegistry
    /\ IdleExtension /\ IdleName

otherThanExtension ==
    <<buildVars, lookupVars, userVars, certVars, kuVars, bcVars, regVars, nameVars>>

ConstructExtension(oid, critical, value) ==
    /\ exArgs' = [oid |-> oid, critical |-> critical, value |-> value]
    /\ exObj' = ExtensionInit(oid, critical, value)
    /\ exRead' = NoExtensionRead
    /\ UNCHANGED otherThanExtension

ReadOid ==
    /\ exObj.kind = "Extension"
    /\ exRead' = Extension_oid(exObj)
    /\ UNCHANGED <<exArgs, exObj, otherThanExtension>>

ReadCritical ==
    /\ exObj.kind = "Extension"
    /\ exRead' = Extension_critical(exObj)
    /\ UNCHANGED <<exArgs, exObj, otherThanExtension>>

ReadValue ==
    /\ exObj.kind = "Extension"
    /\ exRead' = Extension_value(exObj)
    /\ UNCHANGED <<exArgs, exObj, otherThanExtension>>

NextExtension ==
    \/ \E oid \in OidArgs, critical \in CriticalArgs, value \in ValueArgs :
           ConstructExtension(oid, critical, value)
    \/ ReadOid
    \/ ReadCritical
    \/ ReadValue

SpecExtension == InitExtension /\ [][NextExtension]_vars

\* C11: Extension(oid, critical, value) fails with TypeError, yielding no
\* Extension, exactly when oid is not an ObjectIdentifier instance or critical
\* is not a genuine boolean; otherwise it yields an Extension whose oid,
\* critical and value read back as given.
C11_ExtensionConstruction ==
    exObj # NoExtensionObject =>
        IF \/ exArgs.oid \notin {PyOid(o) : o \in ExtensionOids}
           \/ exArgs.critical \notin {PyBool(TRUE), PyBool(FALSE)}
        THEN exObj.kind = "TypeError"
        ELSE /\ exObj.kind = "Extension"
             /\ exRead.prop = "oid" => exRead.oid = exArgs.oid
             /\ exRead.prop = "critical" => exRead.critical = exArgs.critical
             /\ exRead.prop = "value" => exRead.value = exArgs.value

\* C11 witness: with an ObjectIdentifier for oid, the integer 1 for critical
\* was refused with TypeError.
C11_Witness ==
    /\ exArgs.oid = PyOid(OID_BASIC_CONSTRAINTS)
    /\ exArgs.critical = PyInt(1)
    /\ exObj.kind = "TypeError"

----------------------------------------------------------------------------
(* Name: lookups of the attributes with a given OID. *)

InitName ==
    /\ IdleBuild /\ IdleLookup /\ IdleUser /\ IdleCert
    /\ IdleKeyUsage /\ IdleBasicConstraints /\ IdleRegistry
    /\ IdleExtension
    /\ nameAttrs \in SeqsUpTo(NameAttributes, MaxAttributes)
    /\ nameOid = NoOid
    /\ nameResult = NoNameResult

otherThanName ==
    <<buildVars, lookupVars, userVars, certVars, kuVars, bcVars, regVars, exVars>>

GetAttributesForOid(oid) ==
    /\ nameOid' = oid
    /\ nameResult' = get_attributes_for_oid(nameAttrs, oid)
    /\ UNCHANGED <<nameAttrs, otherThanName>>

NextName == \E oid \in NameOids : GetAttributesForOid(oid)

SpecName == InitName /\ [][NextName]_vars

\* Whether sub picks entries of full at increasing positions.
IsSubsequenceAt(sub, full, pos) ==
    /\ Len(sub) = Cardinality(pos)
    /\ \A k \in 1..Len(sub) :
           \E i \in pos :
               /\ Cardinality({j \in pos : j <= i}) = k
               /\ sub[k] = full[i]

\* C12: a get_attributes_for_oid call never fails and leaves the Name as it
\* was; it returns the attributes whose OID is the requested one, every one of
\* them, in their order in the Name, and the empty sequence when none matches.
C12_AttributesForOid ==
    [][(\E oid \in NameOids : GetAttributesForOid(oid)) =>
          /\ nameAttrs' = nameAttrs
          /\ nameResult'.kind = "return"
          /\ IsSubsequenceAt(nameResult'.attrs, nameAttrs,
                 {i \in 1..Len(nameAttrs) : nameAttrs[i].oid = nameOid'})]_vars

\* C12 witness: the call returned the first and third attribute of a Name
\* whose second attribute has another OID; the two differ in value.
C12_Witness ==
    /\ Len(nameAttrs) = 3
    /\ nameAttrs[1].oid = nameOid /\ nameAttrs[3].oid = nameOid
    /\ nameAttrs[2].oid # nameOid
    /\ nameAttrs[1] # nameAttrs[3]
    /\ nameResult = [kind |-> "return", attrs |-> <<nameAttrs[1], nameAttrs[3]>>]

----------------------------------------------------------------------------
(* Further properties of the build. *)

\* OIDs of the typed records before position k: the entries accepted by then
\* when no earlier record failed the build.
TypedBefore(k) == {raw[i].oid : i \in {j \in 1..(k - 1) : raw[j].value = Typed}}

\* Positions of the records that fail the build when it reaches them.
Offenders ==
    {k \in 1..Len(raw) :
        \/ raw[k].oid \in TypedBefore(k)
        \/ raw[k].value = Opaque /\ raw[k].critical}

TypedPositions(n) == {i \in 1..n : raw[i].value = Typed}

\* C13: when the build succeeds, the Extensions set is the typed records of
\* the raw sequence, in input order, each with its OID, critical flag and
\* value; its length is the number of typed records; and every opaque record
\* of the input is non-critical.
C13_BuiltIsTypedSubsequence ==
    outcome = Built =>
        /\ IsSubsequenceAt(accepted, raw, TypedPositions(Len(raw)))
        /\ Extensions_len(accepted) = Cardinality(TypedPositions(Len(raw)))
        /\ \A i \in 1..Len(raw) : raw[i].value = Opaque => ~raw[i].critical

\* C13 witness: a successful build of typed, opaque, typed records, the first
\* critical and the last not, gave the first and the last record.
C13_Witness ==
    /\ outcome = Built
    /\ Len(raw) = 3
    /\ raw[1].value = Typed /\ raw[1].critical
    /\ raw[2].value = Opaque
    /\ raw[3].value = Typed /\ ~raw[3].critical
    /\ accepted = <<raw[1], raw[3]>>

Failed == outcome.kind \in {"DuplicateExtension", "UnsupportedExtension"}

\* C14: a build fails exactly when some record offends, and then at the first
\* offending record in sequence order: the error carries that record's OID, it
\* is DuplicateExtension when the record repeats an accepted OID (also when
\* the record is opaque and critical) and UnsupportedExtension otherwise, no
\* later record has been examined, and once the error is raised the build
\* does nothing more, so one error is raised per build.
C14_FirstOffenderFails ==
    /\ [](BuildEnded => (Failed <=> Offenders # {}))
    /\ [](Failed =>
            /\ idx = Least(Offenders)
            /\ outcome = IF raw[idx].oid \in TypedBefore(idx)
                         THEN [kind |-> "DuplicateExtension", oid |-> raw[idx].oid]
                         ELSE [kind |-> "UnsupportedExtension", oid |-> raw[idx].oid]
            /\ IsSubsequenceAt(accepted, raw, TypedPositions(idx - 1)))
    /\ [][Failed => (outcome' = outcome /\ idx' = idx /\ accepted' = accepted)]_vars

\* C14 witness: the second record repeats the first, typed record's OID and is
\* opaque and critical; the build failed there with DuplicateExtension and
\* never reached the third record, opaque and critical with another OID.
C14_Witness ==
    /\ Len(raw) = 3
    /\ raw[1].value = Typed /\ raw[2].oid = raw[1].oid
    /\ raw[2].value = Opaque /\ raw[2].critical
    /\ raw[3].value = Opaque /\ raw[3].critical /\ raw[3].oid # raw[1].oid
    /\ idx = 2
    /\ outcome = [kind |-> "DuplicateExtension", oid |-> raw[2].oid]

====
